---- MODULE Spec2Model ----
(***************************************************************************)
(* wgpu_canvas: the batched image renderer (src/image/renderer.rs) and the *)
(* shape rasterizer (src/shape.rs).                                        *)
(*                                                                         *)
(* Spec      ImageRenderer.prepare / ImageRenderer.render, which drive the *)
(*           two GenericImageRenderer batches.                             *)
(* SpecLong  the same, plus a first frame whose list is long enough for    *)
(*           the vertex count to pass the range of a 16-bit index.         *)
(* SpecShape Shape.color / Shape.image, the rasterizer's entry points.     *)
(***************************************************************************)
EXTENDS Integers, Sequences, FiniteSets, TLC

VARIABLES
    rectangle_renderer,  \* ImageRenderer.rectangle_renderer: indices, vertex and index stream
    ellipse_renderer,    \* ImageRenderer.ellipse_renderer
    items,               \* the list given to the most recent ImageRenderer.prepare
    pass,                \* the commands the most recent render recorded into its render pass
    raster               \* the most recent Shape.color / Shape.image call and its outcome

vars == <<rectangle_renderer, ellipse_renderer, items, pass, raster>>

(***************************************************************************)
(* Bounds of the exploration.                                              *)
(***************************************************************************)
MaxItems == 3      \* longest list given to prepare under Spec
MaxDim == 4        \* largest width and height of a rasterized shape
MaxStroke == 2     \* largest stroke of a rasterized shape
ExtraQuads == 1    \* quads beyond the last one a 16-bit index can address (SpecLong)

(***************************************************************************)
(* Integer widths.                                                         *)
(***************************************************************************)
U16Bits == 16

U16Range == 2 ^ U16Bits

\* `as u16`: the low 16 bits.
AsU16(n) == n % U16Range

\* `as u32`: the low 32 bits, n minus the multiple of 2^32 below it.
AsU32(n) == n - ((n \div U16Range) \div U16Range) * U16Range * U16Range

(***************************************************************************)
(* Shape (src/shape.rs) and the instances given to ImageRenderer.prepare.  *)
(***************************************************************************)
Ellipse(stroke, size) == [stroke |-> stroke, size |-> size, kind |-> "Ellipse"]

Rectangle(stroke, size) == [stroke |-> stroke, size |-> size, kind |-> "Rectangle"]

RoundedRectangle(stroke, size, corner_radius) ==
    [stroke |-> stroke, size |-> size, kind |-> "RoundedRectangle",
     corner_radius |-> corner_radius]

\* Image keys held by the caller, and the textures (InnerImage) of the atlas.
Images == {"img1", "img2"}

Textures == {"texA", "texB"}

\* ImageAtlas.get: the texture an image key resolves to.
AtlasGet(image) == IF image = "img1" THEN "texA" ELSE "texB"

FrameSizes == {<<8, 6>>}

\* ShapeVertex::new / RoundedRectangleVertex::new: the four vertices of an
\* instance's quad; each vertex keeps its corner and what it was computed from.
\* A vertex: <<corner, area, stroke, size, target size>>.
ShapeVertex(c, width, height, area, stroke, size) ==
    <<c, area, stroke, size, <<width, height>>>>

ShapeVertexNew(width, height, area, stroke, size) ==
    <<ShapeVertex(1, width, height, area, stroke, size),
      ShapeVertex(2, width, height, area, stroke, size),
      ShapeVertex(3, width, height, area, stroke, size),
      ShapeVertex(4, width, height, area, stroke, size)>>

RoundedRectangleVertex(c, width, height, area, stroke, size, corner_radius) ==
    <<c, area, stroke, size, <<width, height>>, corner_radius>>

RoundedRectangleVertexNew(width, height, area, stroke, size, corner_radius) ==
    <<RoundedRectangleVertex(1, width, height, area, stroke, size, corner_radius),
      RoundedRectangleVertex(2, width, height, area, stroke, size, corner_radius),
      RoundedRectangleVertex(3, width, height, area, stroke, size, corner_radius),
      RoundedRectangleVertex(4, width, height, area, stroke, size, corner_radius)>>

(***************************************************************************)
(* GenericImageRenderer                                                    *)
(***************************************************************************)
EmptyMap == [t \in {} |-> <<>>]

\* GenericImageRenderer::new: empty buffers, indices: HashMap::new().
GenericImageRendererNew ==
    [index_buffer |-> <<>>, indices |-> EmptyMap, vertex_buffer |-> <<>>]

\* QuadIndices with the second triangle cut short, to see that the accounting of
\* index counts depends on the six values per quad.
QuadIndicesCutShort(l) == <<l, l + 1, l + 2, l + 1, l + 2>>

\* The six index values of a quad whose first vertex is l.
QuadIndices(l) == <<l, l + 1, l + 2, l + 1, l + 2, l + 3>>

\* FoldInit that keeps the ranges of the previous prepare, to see that the
\* rebuild depends on the fold starting from an empty map.
FoldInitKeepsRanges(self_indices) == <<<<>>, <<>>, self_indices>>

\* The accumulator the fold of prepare starts from.
FoldInit(self_indices) == <<<<>>, <<>>, EmptyMap>>

\* FoldStep that replaces a texture's ranges instead of pushing to them, to see
\* that the partition of the index stream depends on the push.
FoldStepReplacesRanges(a, vertices, image) ==
    LET start == Len(a[2])
        l == AsU16(Len(a[1]))
        a0 == a[1] \o vertices
        a1 == a[2] \o QuadIndices(l)
        index == <<AsU32(start), AsU32(Len(a1))>>
        a2 == [t \in DOMAIN a[3] \cup {image} |->
                  IF t = image THEN <<index>> ELSE a[3][t]]
    IN <<a0, a1, a2>>

\* One step of the fold of prepare: a = (vertices, indices, indices_buffer).
FoldStep(a, vertices, image) ==
    LET start == Len(a[2])
        l == AsU16(Len(a[1]))
        a0 == a[1] \o vertices
        a1 == a[2] \o QuadIndices(l)
        index == <<AsU32(start), AsU32(Len(a1))>>
        a2 == IF image \in DOMAIN a[3]
              THEN [a[3] EXCEPT ![image] = Append(@, index)]
              ELSE [t \in DOMAIN a[3] \cup {image} |->
                        IF t = image THEN <<index>> ELSE a[3][t]]
    IN <<a0, a1, a2>>

\* image_vertices.into_iter().fold(..): the steps applied to the elements
\* lo..hi in order, the accumulator threaded from one to the next.  The run
\* is split in two halves so that its evaluation does not nest once per
\* element; the left half is evaluated before the right one starts.
RECURSIVE FoldRange(_, _, _, _)
FoldRange(a, image_vertices, lo, hi) ==
    IF lo > hi THEN a
    ELSE IF lo = hi
         THEN FoldStep(a, image_vertices[lo][1], image_vertices[lo][2])
         ELSE LET mid == (lo + hi) \div 2
                  left == FoldRange(a, image_vertices, lo, mid)
              IN IF Len(left[2]) >= 0
                 THEN FoldRange(left, image_vertices, mid + 1, hi)
                 ELSE left

\* GenericImageRenderer::prepare
GenericPrepare(self, image_vertices) ==
    LET folded == FoldRange(FoldInit(self.indices), image_vertices,
                            1, Len(image_vertices))
    IN [index_buffer |-> folded[2],
        indices |-> folded[3],
        vertex_buffer |-> folded[1]]

\* The orders in which a HashMap's keys can be visited: every permutation.
KeyOrders(keys) ==
    {o \in [1..Cardinality(keys) -> keys] :
        \A i, j \in 1..Cardinality(keys) : i # j => o[i] # o[j]}

SetPipeline(name) == [arg |-> name, op |-> "set_pipeline"]

SetVertexBuffer(name) == [arg |-> name, op |-> "set_vertex_buffer"]

SetIndexBuffer(name) == [arg |-> name, op |-> "set_index_buffer", format |-> "Uint16"]

SetBindGroup(image) == [arg |-> image, op |-> "set_bind_group"]

DrawIndexed(name, range) ==
    [start |-> range[1], arg |-> name, op |-> "draw_indexed", end |-> range[2]]

\* GroupDraws that walks the Vec backwards, to see that the order of a
\* texture's draws depends on the loop.
GroupDrawsBackwards(name, ranges) ==
    [k \in 1..Len(ranges) |-> DrawIndexed(name, ranges[Len(ranges) + 1 - k])]

\* The draws of one texture group: one per recorded range, in the Vec's order.
GroupDraws(name, ranges) == [k \in 1..Len(ranges) |-> DrawIndexed(name, ranges[k])]

\* The body of the loop over &self.indices, for the key order `order`.
RECURSIVE RenderGroups(_, _, _, _)
RenderGroups(name, indices, order, k) ==
    IF k > Len(order) THEN <<>>
    ELSE <<SetBindGroup(order[k])>> \o GroupDraws(name, indices[order[k]])
         \o RenderGroups(name, indices, order, k + 1)

\* GenericImageRenderer::render: the commands recorded into the pass.
GenericRender(name, self, order) ==
    <<SetPipeline(name), SetVertexBuffer(name), SetIndexBuffer(name)>>
    \o RenderGroups(name, self.indices, order, 1)

(***************************************************************************)
(* ImageRenderer                                                           *)
(***************************************************************************)
\* One step of the fold of ImageRenderer::prepare:
\* a = (ellipses, rects, rounded_rects).
PartitionStep(a, width, height, item) ==
    LET image == AtlasGet(item.image)
        shape == item.shape
    IN CASE shape.kind = "Ellipse" ->
              <<Append(a[1], <<ShapeVertexNew(width, height, item.area,
                                              shape.stroke, shape.size), image>>),
                a[2], a[3]>>
         [] shape.kind = "Rectangle" ->
              <<a[1],
                Append(a[2], <<ShapeVertexNew(width, height, item.area,
                                              shape.stroke, shape.size), image>>),
                a[3]>>
         [] shape.kind = "RoundedRectangle" ->
              <<a[1], a[2],
                Append(a[3], <<RoundedRectangleVertexNew(width, height, item.area,
                                   shape.stroke, shape.size, shape.corner_radius),
                               image>>)>>

RECURSIVE PartitionRange(_, _, _, _, _, _)
PartitionRange(a, width, height, list, lo, hi) ==
    IF lo > hi THEN a
    ELSE IF lo = hi
         THEN PartitionStep(a, width, height, list[lo])
         ELSE LET mid == (lo + hi) \div 2
                  left == PartitionRange(a, width, height, list, lo, mid)
              IN IF Len(left[1]) >= 0
                 THEN PartitionRange(left, width, height, list, mid + 1, hi)
                 ELSE left

\* items.into_iter().fold((vec![], vec![], vec![]), ..)
Partition(width, height, list) ==
    PartitionRange(<<<<>>, <<>>, <<>>>>, width, height, list, 1, Len(list))

\* RectsOf that hands over the rounded rectangles, to see that the partition
\* depends on which list reaches which renderer.
RectsOfRounded(parts) == parts[3]

\* The list handed to rectangle_renderer.prepare, and to ellipse_renderer.prepare.
RectsOf(parts) == parts[2]

EllipsesOf(parts) == parts[1]

\* ImageRender with the two calls exchanged, to see that the order of the
\* categories depends on the order of the calls.
ImageRenderEllipsesFirst(rects, ro, ellipses, eo) ==
    GenericRender("ellipse", ellipses, eo) \o GenericRender("rectangle", rects, ro)

\* ImageRenderer::render: rectangle_renderer.render, then ellipse_renderer.render.
ImageRender(rects, ro, ellipses, eo) ==
    GenericRender("rectangle", rects, ro) \o GenericRender("ellipse", ellipses, eo)

(***************************************************************************)
(* Inputs                                                                  *)
(***************************************************************************)
Instance(shape, image, area) == [image |-> image, area |-> area, shape |-> shape]

\* The instances a list is drawn from: two rectangles of different textures, an
\* ellipse and a rounded rectangle.
Instances ==
    {Instance(Rectangle(1, <<2, 2>>), "img1", "area1"),
     Instance(Rectangle(1, <<2, 2>>), "img2", "area2"),
     Instance(Ellipse(1, <<2, 2>>), "img2", "area3"),
     Instance(RoundedRectangle(1, <<2, 2>>, 1), "img1", "area4")}

\* The length of a list whose vertex count passes the range of a u16.
LongLen == U16Range \div 4 + ExtraQuads

LongInstances == {Instance(Rectangle(1, <<2, 2>>), "img1", "area1")}

Init ==
    /\ rectangle_renderer = GenericImageRendererNew
    /\ ellipse_renderer = GenericImageRendererNew
    /\ items = <<>>
    /\ pass = <<>>
    /\ raster = [call |-> "none"]

\* ImageRenderer::prepare(device, queue, width, height, image_atlas, items)
PrepareWith(width, height, list) ==
    \E parts \in {Partition(width, height, list)} :
    /\ rectangle_renderer' = GenericPrepare(rectangle_renderer, RectsOf(parts))
    /\ ellipse_renderer' = GenericPrepare(ellipse_renderer, EllipsesOf(parts))
    /\ items' = list
    /\ pass' = <<>>
    /\ UNCHANGED raster

Prepare ==
    \E size \in FrameSizes, k \in 0..MaxItems :
        \E list \in [1..k -> Instances] :
            PrepareWith(size[1], size[2], list)

\* ImageRenderer::render(render_pass)
Render ==
    \E ro \in KeyOrders(DOMAIN rectangle_renderer.indices),
       eo \in KeyOrders(DOMAIN ellipse_renderer.indices) :
        /\ pass' = ImageRender(rectangle_renderer, ro, ellipse_renderer, eo)
        /\ UNCHANGED <<rectangle_renderer, ellipse_renderer, items, raster>>

Next == Prepare \/ Render

Spec == Init /\ [][Next]_vars

\* ImageRenderer::prepare with a list of LongLen instances, as the first call on a
\* newly constructed renderer.
PrepareLong ==
    /\ rectangle_renderer = GenericImageRendererNew
    /\ ellipse_renderer = GenericImageRendererNew
    /\ items = <<>>
    /\ pass = <<>>
    /\ \E size \in FrameSizes, inst \in LongInstances :
           \E list \in {[i \in 1..LongLen |-> inst]} :
               PrepareWith(size[1], size[2], list)

NextLong == Prepare \/ Render \/ PrepareLong

SpecLong == Init /\ [][NextLong]_vars

(***************************************************************************)
(* Shape rasterization (src/shape.rs)                                      *)
(*                                                                         *)
(* Coordinates are u32 in the source.  A difference that is negative here  *)
(* is an unsigned subtraction that underflowed: with overflow checks it    *)
(* panics, without them it wraps to the difference plus 2^32, a coordinate *)
(* far outside any buffer, which is what a negative coordinate stands for. *)
(***************************************************************************)
Min(x, y) == IF x <= y THEN x ELSE y

\* let alpha = 4;
Alpha == 4

\* A call's result: a returned buffer of the given dimensions, the todo!() panic,
\* or a panic of the given stage.
ReturnsImage(width, height) ==
    [width |-> width, height |-> height, outcome |-> "image", stage |-> "return"]

NotImplemented ==
    [width |-> 0, height |-> 0, outcome |-> "not_implemented", stage |-> "todo"]

Panics(stage) == [width |-> 0, height |-> 0, outcome |-> "panic", stage |-> stage]

\* image.put_pixel(x, y, ..) on a buffer of the given size panics outside it.
PutPixelPanics(size, x, y) == ~(0 <= x /\ x < size[1] /\ 0 <= y /\ y < size[2])

\* let size = (self.size.0*alpha, self.size.1*alpha);
SupersampledSize(self) == <<self.size[1] * Alpha, self.size[2] * Alpha>>

\* let stroke = self.stroke.min(self.size.0/2)*alpha;
ClampedStroke(self) == Min(self.stroke, self.size[1] \div 2) * Alpha

\* The four put_pixel calls of one iteration of the corner loops, in order.
CornerPixels(size, x, y) ==
    <<<<x, y>>, <<x, size[2] - y - 1>>,
      <<size[1] - x - 1, size[2] - y - 1>>, <<size[1] - x - 1, y>>>>

\* for x in 0..stroke { for y in 0..stroke { .. } }: whether an iteration panics,
\* on an underflowing subtraction (overflow checks) or on a write outside the buffer.
CornersPanic(size, stroke, overflow_checks) ==
    \E x \in 0..(stroke - 1), y \in 0..(stroke - 1) :
        \/ overflow_checks /\ (size[2] - y - 1 < 0 \/ size[1] - x - 1 < 0)
        \/ \E k \in 1..4 : PutPixelPanics(size, CornerPixels(size, x, y)[k][1],
                                          CornerPixels(size, x, y)[k][2])

\* Parametric::build: let steps = (self.0+self.1)*16;
ParametricSteps(size) == (size[1] + size[2]) * 16

\* `as u32` of a rounded f64: negative values (and NaN) become 0.
RoundedAsU32(r) == IF r < 0 THEN 0 ELSE r

\* x.min(m) for a u32 m that may be an underflowed size - 1.
MinU32(x, m) == IF m < 0 THEN x ELSE Min(x, m)

\* to_coord, applied to the rounded values of a + x and b + y.
ToCoord(size, rx, ry) ==
    <<MinU32(RoundedAsU32(rx), size[1] - 1), MinU32(RoundedAsU32(ry), size[2] - 1)>>

\* The points a sweep can hand to its closure.  The closure's x and y come out of
\* sin, cos, a division and a square root; every rounded value from below the
\* buffer to above it is taken.
SweepPoints(size) ==
    {ToCoord(size, rx, ry) : rx \in (0 - 1)..size[1], ry \in (0 - 1)..size[2]}

\* (x as f64) < a, with a = size/2 - 0.5.
BelowCentre(x, extent) == 2 * x + 1 < extent

\* The pixels the closure of the stroked sweep (lines 71-95) writes for one point:
\* a row to the nearer side and a column to the nearer end.
StrokeSweepPixels(size, p) ==
    (IF BelowCentre(p[1], size[1])
     THEN {<<i, p[2]>> : i \in 0..p[1]}
     ELSE {<<i, p[2]>> : i \in p[1]..(size[1] - 1)})
    \cup
    (IF BelowCentre(p[2], size[2])
     THEN {<<p[1], i>> : i \in 0..p[2]}
     ELSE {<<p[1], i>> : i \in p[2]..(size[2] - 1)})

\* The pixels the closure of the clearing sweep (lines 99-114) writes for one point.
ClearSweepPixels(size, p) ==
    IF BelowCentre(p[1], size[1])
    THEN {<<i, p[2]>> : i \in 0..p[1]}
    ELSE {<<i, p[2]>> : i \in p[1]..(size[1] - 1)}

\* The pixels the closure of the fill sweep (lines 117-132) writes for one point;
\* a.ceil() is half the buffer's width, the width being a multiple of alpha.
FillSweepPixels(size, p) ==
    IF BelowCentre(p[1], size[1])
    THEN {<<i, p[2]>> : i \in p[1]..(size[1] \div 2 - 1)}
    ELSE {<<i, p[2]>> : i \in (size[1] \div 2)..(p[1] - 1)}

SweepPixels(size, stroke, p) ==
    IF stroke > 0
    THEN StrokeSweepPixels(size, p) \cup ClearSweepPixels(size, p)
    ELSE FillSweepPixels(size, p)

\* Whether a sweep panics: to_coord's self.0-1 underflows (overflow checks), or a
\* closure writes outside the buffer.  A sweep of a 0 by 0 buffer has no step.
SweepsPanic(size, stroke, overflow_checks) ==
    /\ ParametricSteps(size) > 0
    /\ \/ overflow_checks /\ (size[1] - 1 < 0 \/ size[2] - 1 < 0)
       \/ \E p \in SweepPoints(size) : \E w \in SweepPixels(size, stroke, p) :
              PutPixelPanics(size, w[1], w[2])

\* resizer.resize(src, dst, ..).unwrap(): whether resize can return an error.  What
\* the resizer does with an image of no pixels is not this repository's code: both
\* answers are taken.
ResizeErrors(src, dst) ==
    IF src[1] = 0 \/ src[2] = 0 \/ dst[1] = 0 \/ dst[2] = 0
    THEN {FALSE, TRUE}
    ELSE {FALSE}

\* EllipseDstSize that returns the supersampled buffer's size, to see that the
\* returned dimensions depend on the buffer resized into.
EllipseDstSizeSupersampled(self, size) == size

\* The buffer Ellipse::color resizes into and returns:
\* DynamicImage::new(self.size.0, self.size.1, ..).
EllipseDstSize(self, size) == self.size

\* Ellipse::color: the results the call can have.
EllipseColor(self, pixel, overflow_checks) ==
    LET size == SupersampledSize(self)
        stroke == ClampedStroke(self)
        dst == EllipseDstSize(self, size)
    IN IF CornersPanic(size, stroke, overflow_checks)
       THEN {Panics("corners")}
       ELSE IF SweepsPanic(size, stroke, overflow_checks)
       THEN {Panics("sweep")}
       ELSE {IF err THEN Panics("resize") ELSE ReturnsImage(dst[1], dst[2]) :
                err \in ResizeErrors(size, dst)}

\* Ellipse::image: todo!()
EllipseImage(self, image) == {NotImplemented}

\* RectangleColor that returns a buffer, to see that the not-implemented
\* combinations depend on the todo!().
RectangleColorReturns(self, color) == {ReturnsImage(self.size[1], self.size[2])}

\* Rectangle::color: todo!()
RectangleColor(self, color) == {NotImplemented}

\* Rectangle::image: the source image resized into a buffer of self.size.
RectangleImage(self, image) ==
    LET dst == self.size
    IN {IF err THEN Panics("resize") ELSE ReturnsImage(dst[1], dst[2]) :
           err \in ResizeErrors(image, dst)}

\* RoundedRectangle::color: todo!()
RoundedRectangleColor(self, color) == {NotImplemented}

\* RoundedRectangle::image: todo!()
RoundedRectangleImage(self, image) == {NotImplemented}

\* Shape::color
ShapeColorResults(self, color, overflow_checks) ==
    CASE self.kind = "Ellipse" -> EllipseColor(self, color, overflow_checks)
      [] self.kind = "Rectangle" -> RectangleColor(self, color)
      [] self.kind = "RoundedRectangle" -> RoundedRectangleColor(self, color)

\* Shape::image
ShapeImageResults(self, image) ==
    CASE self.kind = "Ellipse" -> EllipseImage(self, image)
      [] self.kind = "Rectangle" -> RectangleImage(self, image)
      [] self.kind = "RoundedRectangle" -> RoundedRectangleImage(self, image)

\* The shapes, fill colours and source images (by their dimensions) of the calls.
Sizes == (0..MaxDim) \X (0..MaxDim)

RasterShapes ==
    {Ellipse(st, sz) : st \in 0..MaxStroke, sz \in Sizes}
    \cup {Rectangle(st, sz) : st \in 0..MaxStroke, sz \in Sizes}
    \cup {RoundedRectangle(st, sz, 1) : st \in 0..MaxStroke, sz \in Sizes}

Colors == {<<255, 0, 0, 255>>}

SourceImages == {<<1, 1>>, <<3, 2>>, <<0, 0>>}

\* Shape::color(self, color), in a build with or without overflow checks.
ShapeColor ==
    \E self \in RasterShapes, color \in Colors, overflow_checks \in BOOLEAN :
        \E res \in ShapeColorResults(self, color, overflow_checks) :
            /\ raster' = [self |-> self, call |-> "color",
                          overflow_checks |-> overflow_checks, fill |-> color,
                          result |-> res]
            /\ UNCHANGED <<rectangle_renderer, ellipse_renderer, items, pass>>

\* Shape::image(self, image)
ShapeImage ==
    \E self \in RasterShapes, image \in SourceImages :
        \E res \in ShapeImageResults(self, image) :
            /\ raster' = [self |-> self, call |-> "image",
                          overflow_checks |-> FALSE, fill |-> image,
                          result |-> res]
            /\ UNCHANGED <<rectangle_renderer, ellipse_renderer, items, pass>>

NextShape == ShapeColor \/ ShapeImage

SpecShape == Init /\ [][NextShape]_vars

(***************************************************************************)
(* What the properties below read off the state.                           *)
(***************************************************************************)
Names == {"rectangle", "ellipse"}

RendererOf(name) == IF name = "rectangle" THEN rectangle_renderer ELSE ellipse_renderer

KindOf(name) == IF name = "rectangle" THEN "Rectangle" ELSE "Ellipse"

\* The positions of the instances of a category in the list given to prepare.
InputPositions(name) == {i \in DOMAIN items : items[i].shape.kind = KindOf(name)}

InputCount(name) == Cardinality(InputPositions(name))

\* The q-th instance of a category, in input order, and the texture it resolves to.
NthInput(name, q) ==
    items[CHOOSE i \in InputPositions(name) :
              Cardinality({j \in InputPositions(name) : j <= i}) = q]

InputTexture(name, q) == AtlasGet(NthInput(name, q).image)

CountOf(name, t) ==
    Cardinality({q \in 1..InputCount(name) : InputTexture(name, q) = t})

\* Every (texture, position) of a recorded range, and the range there.
RangeEntries(r) ==
    UNION {{<<t, k>> : k \in DOMAIN r.indices[t]} : t \in DOMAIN r.indices}

RangeAt(r, e) == r.indices[e[1]][e[2]]

Rendered == pass # <<>>

IsDraw(p, name) == pass[p].op = "draw_indexed" /\ pass[p].arg = name

DrawsOf(name) == {p \in DOMAIN pass : IsDraw(p, name)}

\* The argument of the last command `op` before position p ("none" without one).
LastBefore(op, p) ==
    LET S == {q \in 1..(p - 1) : pass[q].op = op}
    IN IF S = {} THEN "none"
       ELSE pass[CHOOSE q \in S : \A q2 \in S : q2 <= q].arg

BoundAt(p) == LastBefore("set_bind_group", p)

PipelineAt(p) == LastBefore("set_pipeline", p)

RECURSIVE SumLengths(_)
SumLengths(S) ==
    IF S = {} THEN 0
    ELSE LET p == CHOOSE x \in S : TRUE
         IN (pass[p].end - pass[p].start) + SumLengths(S \ {p})

\* The ranges drawn for a renderer while texture t is bound, in the pass's order.
DrawSeq(name, t) ==
    LET P == {p \in DrawsOf(name) : BoundAt(p) = t}
        nth(k) == CHOOSE p \in P : Cardinality({x \in P : x <= p}) = k
    IN [k \in 1..Cardinality(P) |-> <<pass[nth(k)].start, pass[nth(k)].end>>]

(***************************************************************************)
(* Properties of the batch renderer (Spec).                                *)
(***************************************************************************)

\* C1: the draws a render issues for a batch have index ranges whose lengths sum
\* to 6 times the number of quads given to prepare, and for each texture the
\* lengths of the ranges drawn while that texture is bound sum to 6 times the
\* number of input quads that reference it.
BatchIndexAccounting ==
    Rendered =>
        \A name \in Names :
            /\ SumLengths(DrawsOf(name)) = 6 * InputCount(name)
            /\ \A t \in Textures :
                   SumLengths({p \in DrawsOf(name) : BoundAt(p) = t})
                       = 6 * CountOf(name, t)

\* A rendered rectangle batch of texA, texB, texA: texA's quads are interleaved.
BatchIndexAccountingWitness ==
    /\ Rendered
    /\ InputCount("rectangle") = 3
    /\ InputTexture("rectangle", 1) = "texA"
    /\ InputTexture("rectangle", 2) = "texB"
    /\ InputTexture("rectangle", 3) = "texA"
    /\ Cardinality({p \in DrawsOf("rectangle") : BoundAt(p) = "texA"}) = 2

\* C2: the recorded ranges, over all textures, partition the index stream
\* [0, 6K) of a prepare with K quads: each has length 6, no two overlap, their
\* union is the stream, and each covers the six indices of one input quad whose
\* texture is the key it is recorded under.
RangesPartitionStream ==
    \A name \in Names :
        LET r == RendererOf(name)
            K == InputCount(name)
            R == RangeEntries(r)
        IN /\ Len(r.index_buffer) = 6 * K
           /\ \A e \in R : RangeAt(r, e)[2] - RangeAt(r, e)[1] = 6
           /\ \A e, f \in R :
                  e # f => \/ RangeAt(r, e)[2] <= RangeAt(r, f)[1]
                           \/ RangeAt(r, f)[2] <= RangeAt(r, e)[1]
           /\ \A x \in 0..(6 * K - 1) :
                  \E e \in R : RangeAt(r, e)[1] <= x /\ x < RangeAt(r, e)[2]
           /\ \A e \in R :
                  LET start == RangeAt(r, e)[1]
                  IN /\ 0 <= start /\ RangeAt(r, e)[2] <= 6 * K
                     /\ start % 6 = 0
                     /\ InputTexture(name, start \div 6 + 1) = e[1]

\* texA owns two ranges that are not contiguous, texB the one between them.
RangesPartitionStreamWitness ==
    /\ DOMAIN rectangle_renderer.indices = {"texA", "texB"}
    /\ rectangle_renderer.indices["texA"] = <<<<0, 6>>, <<12, 18>>>>
    /\ rectangle_renderer.indices["texB"] = <<<<6, 12>>>>

\* C3: in ImageRenderer.render every draw of the rectangle renderer is issued
\* before the first pipeline bind or draw of the ellipse renderer, whatever the
\* order of rectangles and ellipses in the list given to prepare.
RectanglesBeforeEllipses ==
    Rendered =>
        \A p, q \in DOMAIN pass :
            (/\ IsDraw(p, "rectangle")
             /\ pass[q].arg = "ellipse"
             /\ pass[q].op \in {"set_pipeline", "draw_indexed"}) => p < q

\* Both categories are drawn, from a list that names an ellipse before a rectangle.
RectanglesBeforeEllipsesWitness ==
    /\ Rendered
    /\ DrawsOf("rectangle") # {}
    /\ DrawsOf("ellipse") # {}
    /\ Len(items) >= 2
    /\ items[1].shape.kind = "Ellipse"
    /\ items[Len(items)].shape.kind = "Rectangle"

\* C6: the batch is a function of the list of the most recent prepare only: it
\* is the batch a newly constructed renderer builds from that list, no texture
\* key but those of the list is recorded, and after a prepare with an empty list
\* render issues no draw.
BatchRebuiltInFull ==
    /\ \E size \in FrameSizes :
           LET parts == Partition(size[1], size[2], items)
           IN /\ rectangle_renderer
                     = GenericPrepare(GenericImageRendererNew, RectsOf(parts))
              /\ ellipse_renderer
                     = GenericPrepare(GenericImageRendererNew, EllipsesOf(parts))
    /\ \A name \in Names :
           DOMAIN RendererOf(name).indices
               = {InputTexture(name, q) : q \in 1..InputCount(name)}
    /\ (items = <<>> /\ Rendered) =>
           \A p \in DOMAIN pass : pass[p].op # "draw_indexed"

\* A batch that holds one rectangle of texB and nothing of texA.
BatchRebuiltInFullWitness ==
    /\ Len(items) = 1
    /\ DOMAIN rectangle_renderer.indices = {"texB"}
    /\ rectangle_renderer.indices["texB"] = <<<<0, 6>>>>
    /\ Len(rectangle_renderer.vertex_buffer) = 4

\* C7: ImageRenderer.prepare gives every Rectangle instance exactly one quad of
\* the rectangle renderer and every Ellipse instance exactly one quad of the
\* ellipse renderer, in the instances' relative input order and with the
\* texture the atlas resolves for that instance; RoundedRectangle instances
\* reach neither renderer.
PartitionByCategory ==
    \A name \in Names :
        LET r == RendererOf(name)
            K == InputCount(name)
        IN /\ Len(r.vertex_buffer) = 4 * K
           /\ Cardinality(RangeEntries(r)) = K
           /\ \A q \in 1..K :
                  LET it == NthInput(name, q)
                      tex == AtlasGet(it.image)
                  IN /\ \E size \in FrameSizes : \A c \in 1..4 :
                            r.vertex_buffer[4 * (q - 1) + c]
                                = ShapeVertexNew(size[1], size[2], it.area,
                                                 it.shape.stroke, it.shape.size)[c]
                     /\ tex \in DOMAIN r.indices
                     /\ \E k \in DOMAIN r.indices[tex] :
                            r.indices[tex][k] = <<6 * (q - 1), 6 * q>>

\* A list of a rounded rectangle, an ellipse and a rectangle.
PartitionByCategoryWitness ==
    /\ Len(items) = 3
    /\ items[1].shape.kind = "RoundedRectangle"
    /\ items[2].shape.kind = "Ellipse"
    /\ items[3].shape.kind = "Rectangle"
    /\ Len(rectangle_renderer.vertex_buffer) = 4
    /\ Len(ellipse_renderer.vertex_buffer) = 4

\* C8: render issues exactly one indexed draw for each range the last prepare
\* recorded, with that range's texture bound, and the draws of one texture are
\* issued in the order their ranges were recorded, by ascending start index.
RenderDrawsRecordedRanges ==
    Rendered =>
        \A name \in Names :
            LET r == RendererOf(name)
            IN /\ \A p \in DrawsOf(name) :
                      /\ BoundAt(p) \in DOMAIN r.indices
                      /\ PipelineAt(p) = name
               /\ \A t \in DOMAIN r.indices :
                      /\ DrawSeq(name, t) = r.indices[t]
                      /\ \A k \in 1..(Len(r.indices[t]) - 1) :
                             r.indices[t][k][1] < r.indices[t][k + 1][1]

\* texB is visited before texA, and texA's two ranges are drawn in order.
RenderDrawsRecordedRangesWitness ==
    /\ Rendered
    /\ DrawSeq("rectangle", "texA") = <<<<0, 6>>, <<12, 18>>>>
    /\ DrawSeq("rectangle", "texB") = <<<<6, 12>>>>
    /\ \E p, q \in DrawsOf("rectangle") :
           p < q /\ BoundAt(p) = "texB" /\ BoundAt(q) = "texA"

(***************************************************************************)
(* Property of the index values (SpecLong).                                *)
(***************************************************************************)

\* C10: the six index values appended for the quad at position i (0-based) are
\* 4i, 4i+1, 4i+2, 4i+1, 4i+2, 4i+3, the quad's own four vertices, whatever the
\* number of quads in the list.
QuadIndicesOwnVertices ==
    \A name \in Names :
        LET r == RendererOf(name)
            K == Len(r.vertex_buffer) \div 4
        IN /\ Len(r.index_buffer) = 6 * K
           /\ \A i \in 0..(K - 1) :
                  /\ r.index_buffer[6 * i + 1] = 4 * i
                  /\ r.index_buffer[6 * i + 2] = 4 * i + 1
                  /\ r.index_buffer[6 * i + 3] = 4 * i + 2
                  /\ r.index_buffer[6 * i + 4] = 4 * i + 1
                  /\ r.index_buffer[6 * i + 5] = 4 * i + 2
                  /\ r.index_buffer[6 * i + 6] = 4 * i + 3

(***************************************************************************)
(* Properties of the rasterizer (SpecShape).                               *)
(***************************************************************************)
Called == raster.call # "none"

\* C4: rasterizing a solid-colour Ellipse of width >= 1 and height >= 1 never
\* fails, whatever the stroke: every pixel written by the corner fill and by the
\* sweeps is inside the supersampled buffer and no subtraction underflows.
StrokeNeverFails ==
    (/\ Called
     /\ raster.call = "color"
     /\ raster.self.kind = "Ellipse"
     /\ raster.self.size[1] >= 1
     /\ raster.self.size[2] >= 1) => raster.result.outcome # "panic"

\* C5: a RoundedRectangle with either fill, an Ellipse with an image fill and a
\* Rectangle with a colour fill always end in the not-implemented panic and
\* return no buffer; only an Ellipse with a colour fill and a Rectangle with an
\* image fill return an image.
UnimplementedCombinations ==
    Called =>
        LET kind == raster.self.kind
            implemented == \/ kind = "Ellipse" /\ raster.call = "color"
                           \/ kind = "Rectangle" /\ raster.call = "image"
        IN /\ ~implemented => raster.result = NotImplemented
           /\ raster.result.outcome = "image" => implemented
           /\ implemented => raster.result.outcome # "not_implemented"

\* A RoundedRectangle asked for an image fill.
UnimplementedCombinationsWitness ==
    /\ raster.call = "image"
    /\ raster.self.kind = "RoundedRectangle"
    /\ raster.result.outcome = "not_implemented"

\* C9: every rasterization that returns an image returns one of exactly the
\* requested dimensions, whatever the supersampled buffer or the source image.
DimensionExactness ==
    (Called /\ raster.result.outcome = "image") =>
        /\ raster.result.width = raster.self.size[1]
        /\ raster.result.height = raster.self.size[2]

\* An Ellipse of 2 by 3, drawn into a buffer of 8 by 12, returned as 2 by 3.
DimensionExactnessWitness ==
    /\ raster.call = "color"
    /\ raster.self = Ellipse(1, <<2, 3>>)
    /\ SupersampledSize(raster.self) = <<8, 12>>
    /\ raster.result = ReturnsImage(2, 3)
====
